---- MODULE Spec2Model ----
(***************************************************************************)
(* A model of the RS41 radiosonde core of sdrpp_radiosonde:                *)
(*   - dsp::Framer (src/src/decode/framer.cpp): the bit-synchronising      *)
(*     framer and its correlation primitive correlateU64;                  *)
(*   - RS41Decoder (src/src/decode/rs41/decoder.cpp): the sub-record walk, *)
(*     the dispatch and the calibration assembler.                         *)
(*                                                                         *)
(* Bytes are kept as their eight bits, most significant bit first, so a    *)
(* buffer of n bytes is a sequence of 8n values 0/1 and byte b of a buffer *)
(* holds the bits 8b+1 .. 8b+8.  A uint64_t is a sequence of 64 bits, most *)
(* significant first; shifts drop the bits that leave the 64-bit word.     *)
(***************************************************************************)
EXTENDS Integers, Sequences, FiniteSets, TLC

VARIABLES
    \* ---- dsp::Framer ------------------------------------------------
    syncWord,      \* _syncWord, a uint64_t
    syncLen,       \* _syncLen, in bytes
    frameLen,      \* _frameLen, in bytes
    rawData,       \* _rawData, 2*frameLen bytes
    state,         \* _state: "READ" or "DEOFFSET"
    dataOffset,    \* _dataOffset, in bits
    syncOffset,    \* _syncOffset, in bits
    out,           \* every frame written to out.writeBuf so far, in order
    stream,        \* the byte stream the upstream block will deliver
    fed,           \* how many bytes of stream the run calls have been given
    base,          \* value of fed at the last setInput (0 before any)
    outBase,       \* Len(out) at the last setInput (0 before any)
    resets,        \* number of setInput calls so far (of the framer in its
                   \* runs, of the decoder in the decoder's)
    chunks,        \* which chunks run has been called with so far:
                   \* [one: a one-byte chunk, short: one shorter than frameLen]
    call,          \* the run call in progress, or the last one:
                   \* [active: inside run, src: the bits of the chunk from src
                   \* on (count bytes), took: the numBytes values of the last
                   \* loop iteration, idle: how many iterations in a row took
                   \* no byte and emitted no frame]
    \* ---- one correlateU64 call on its own ---------------------------
    cFrame,        \* the frame handed to correlateU64
    cDone,         \* whether correlateU64 has returned
    cResult,       \* [offset, inverted]: the value returned and what *inverted
                   \* holds (before the call: what it happens to hold)
    \* ---- RS41Decoder -------------------------------------------------
    fragCount,       \* RS41_CALIB_FRAGCOUNT of the build
    calibData,       \* _calibData, fragCount * RS41_CALIB_FRAGSIZE bytes
    calibDataBitmap, \* _calibDataBitmap
    calibrated,      \* _calibrated
    stray,           \* whether a write has landed outside _calibData or
                     \* outside _calibDataBitmap
    applied,         \* the fragment indexes updateCalibData was called with
    pc,              \* "idle", or "run" inside RS41Decoder::run
    numFrames,       \* numFrames of the current (or last) run call
    i,               \* the loop counter of run: frames processed
    outCount,        \* outCount of run
    sondeData,       \* the local SondeData of run
    rawFrame,        \* the frame of the last loop iteration, as read from
                     \* the input buffer
    rsFailed,        \* whether rsCorrect failed on that frame
    walked,          \* the sub-record walk of that frame, one entry per
                     \* sub-record reached: [offset, dispatched, changed]
    nCalls,          \* handler calls made by the current (or last) run call
    lastArg,         \* the record passed to the last handler call
    ret              \* what the last run call returned

framerVars == <<syncWord, syncLen, frameLen, rawData, state, dataOffset,
                syncOffset, out, stream, fed, base, outBase, resets, chunks, call>>
corrVars == <<cFrame, cDone, cResult>>
decVars == <<fragCount, calibData, calibDataBitmap, calibrated, stray, applied, pc,
             numFrames, i, outCount, sondeData, rawFrame, rsFailed, walked, nCalls,
             lastArg, ret>>
vars == <<framerVars, corrVars, decVars>>

(***************************************************************************)
(* Bounds of the model.                                                    *)
(***************************************************************************)
MaxStream == 23        \* bytes in the input stream of a framer run
MaxResets == 1         \* setInput calls in a framer run
MaxFrames == 2         \* frames one RS41Decoder::run call reads
MaxFragCount == 3      \* largest RS41_CALIB_FRAGCOUNT of the calibration runs

(***************************************************************************)
(* Bits and bytes.                                                         *)
(***************************************************************************)
Min(a, b) == IF a < b THEN a ELSE b

\* the element of the one-element set S
Only(S) == CHOOSE x \in S : TRUE

\* CEILDIV(x, y) of framer.cpp
CEILDIV(x, y) == (x + (y - 1)) \div y

RECURSIVE Pow2(_)
Pow2(n) == IF n = 0 THEN 1 ELSE 2 * Pow2(n - 1)

\* the eight bits of the byte b, most significant first
ByteBits(b) == [k \in 1..8 |-> (b \div Pow2(8 - k)) % 2]

RECURSIVE BytesBits(_)
BytesBits(bs) == IF bs = <<>> THEN <<>> ELSE ByteBits(Head(bs)) \o BytesBits(Tail(bs))

\* n copies of the bit b
Fill(b, n) == [k \in 1..n |-> b]

\* a uint64_t holding the bytes bs (at most 8) in its low bits
U64(bs) == Fill(0, 64 - 8 * Len(bs)) \o BytesBits(bs)

\* bits p+1 .. p+n of w (the n bits from bit offset p)
BitsAt(w, p, n) == SubSeq(w, p + 1, p + n)

\* w with the bits v stored from bit offset p on
WriteBits(w, p, v) ==
    IF p + Len(v) <= Len(w)
    THEN SubSeq(w, 1, p) \o v \o SubSeq(w, p + Len(v) + 1, Len(w))
    ELSE SubSeq(w, 1, p) \o SubSeq(v, 1, Len(w) - p)

(***************************************************************************)
(* dsp::Framer::correlateU64 and inverseCorrelateU64.                      *)
(***************************************************************************)
\* x & y on uint64_t
And64(x, y) == [k \in 1..64 |-> x[k] * y[k]]

\* (w << 8) | byte, the byte given as its eight bits
Shl8Or(w, byte) == SubSeq(w, 9, 64) \o byte

\* (w << 1) | bit
Shl1Or(w, bit) == Append(Tail(w), bit)

\* inverseCorrelateU64: the number of bits that differ between x and y
inverseCorrelateU64(x, y) == Cardinality({k \in 1..64 : x[k] # y[k]})

\* syncMask of correlateU64: (_syncLen < 8) ? (1ULL << (8*_syncLen)) : ~0ULL.
\* Bit n counted from the least significant one is element 64 - n.
SyncMask(sl) ==
    IF sl < 8 THEN [k \in 1..64 |-> IF k = 64 - 8 * sl THEN 1 ELSE 0]
    ELSE Fill(1, 64)

\* the first loop of correlateU64: the window after reading n bytes of frame
RECURSIVE InitialWindow(_, _)
InitialWindow(frame, n) ==
    IF n = 0 THEN Fill(0, 64)
    ELSE Shl8Or(InitialWindow(frame, n - 1), BitsAt(frame, 8 * (n - 1), 8))

\* what the model's *inverted holds while the call has not assigned it
Unwritten == -1

\* One iteration of the search loop of correlateU64, iteration t = 8*i + j.
\* c = [window, bestCorr, bestOffset, inverted]; inverted is Unwritten while
\* *inverted has not been written by this call.
CorrStep(t, c, sw, mask, sl, frame) ==
    LET corr == inverseCorrelateU64(sw, And64(c.window, mask))
        c1 == IF corr < c.bestCorr
              THEN [c EXCEPT !.bestCorr = corr, !.bestOffset = t, !.inverted = 0]
              ELSE c
        icorr == sl * 8 - corr
        c2 == IF icorr < c1.bestCorr
              THEN [c1 EXCEPT !.bestCorr = icorr, !.bestOffset = t, !.inverted = 1]
              ELSE c1
    IN [c2 EXCEPT !.window = Shl1Or(c.window, frame[8 * sl + t + 1])]

\* The search loop from iteration t to its end.  Each iteration's result is
\* bound as a value before the next one starts.
RECURSIVE CorrSearch(_, _, _, _, _, _, _)
CorrSearch(t, c, sw, mask, sl, frame, len) ==
    IF t >= 8 * (len - sl) THEN c
    ELSE Only({ CorrSearch(t + 1, c3, sw, mask, sl, frame, len) :
                  c3 \in {CorrStep(t, c, sw, mask, sl, frame)} })

\* correlateU64(&inverted, frame, len) of a framer with sync word word and sync
\* length sl: [offset |-> the value returned, inverted |-> what *inverted holds]
correlateU64(word, sl, frame, len) ==
    LET mask == SyncMask(sl)
        sw == And64(word, mask)
        window == InitialWindow(frame, sl)
        bestCorr == inverseCorrelateU64(sw, And64(window, mask))
    IN IF bestCorr = 0 THEN [offset |-> 0, inverted |-> Unwritten]
       ELSE LET c == CorrSearch(0, [window |-> window, bestCorr |-> bestCorr,
                                    bestOffset |-> 0, inverted |-> Unwritten],
                                sw, mask, sl, frame, len)
            IN [offset |-> c.bestOffset, inverted |-> c.inverted]

(***************************************************************************)
(* bitpack and bitcpy of utils.c, as framer.cpp uses them.                 *)
(***************************************************************************)
\* memcpy(buf + byteOff, src, Len(src)/8)
Memcpy(buf, byteOff, src) == WriteBits(buf, 8 * byteOff, src)

\* bitpack(buf + dstByte, buf + srcByte, bitOffset, numBits): the numBits bits
\* at byte srcByte are packed into the buffer from bit bitOffset of byte dstByte
bitpack(buf, dstByte, srcByte, bitOffset, numBits) ==
    WriteBits(buf, 8 * dstByte + bitOffset, BitsAt(buf, 8 * srcByte, numBits))

\* bitcpy(buf, buf, offset, bits): the bits from bit offset on move to bit 0
bitcpy(buf, offset, bits) == WriteBits(buf, 0, BitsAt(buf, offset, bits))

(***************************************************************************)
(* dsp::Framer::run.  f is the framer's state, src the bytes of the chunk  *)
(* not yet taken (count = Len(src) / 8).                                   *)
(***************************************************************************)
\* memcpy of numBytes bytes to _rawData + CEILDIV(_dataOffset, 8), then
\* bitpack when _dataOffset is not byte aligned (lines 70-77 and 96-103)
ReadInput(f, src, numBytes) ==
    LET copied == Memcpy(f.rawData, CEILDIV(f.dataOffset, 8), BitsAt(src, 0, 8 * numBytes))
        packed == IF f.dataOffset % 8 # 0
                  THEN bitpack(copied, f.dataOffset \div 8, CEILDIV(f.dataOffset, 8),
                               f.dataOffset % 8, 8 * numBytes)
                  ELSE copied
    IN [f EXCEPT !.rawData = packed, !.dataOffset = f.dataOffset + 8 * numBytes]

\* what is left of the chunk after numBytes bytes were taken
Rest(src, numBytes) == BitsAt(src, 8 * numBytes, Len(src) - 8 * numBytes)

\* ReadStep with the bytes taken before a suspension not kept
ReadStep_DropsOnSuspend(f, src) ==
    LET count == Len(src) \div 8
        numBytes == Min(f.frameLen - f.dataOffset \div 8, count)
        f1 == ReadInput(f, src, numBytes)
    IN IF count - numBytes <= 0
       THEN [f |-> f, src |-> Rest(src, numBytes), ret |-> TRUE, took |-> <<numBytes>>]
       ELSE LET c == correlateU64(f.syncWord, f.syncLen,
                                  BitsAt(f1.rawData, 0, 8 * f.frameLen), f.frameLen)
            IN [f |-> [f1 EXCEPT !.syncOffset = c.offset, !.state = "DEOFFSET"],
                src |-> Rest(src, numBytes), ret |-> FALSE, took |-> <<numBytes>>]

\* a READ that returns with one byte of the chunk not taken
ReadStep_ReturnsWithByteLeft(f, src) ==
    LET count == Len(src) \div 8
        numBytes == Min(f.frameLen - f.dataOffset \div 8, count)
        f1 == ReadInput(f, src, numBytes)
    IN IF count - numBytes <= 1
       THEN [f |-> f1, src |-> Rest(src, numBytes), ret |-> TRUE, took |-> <<numBytes>>]
       ELSE LET c == correlateU64(f.syncWord, f.syncLen,
                                  BitsAt(f1.rawData, 0, 8 * f.frameLen), f.frameLen)
            IN [f |-> [f1 EXCEPT !.syncOffset = c.offset, !.state = "DEOFFSET"],
                src |-> Rest(src, numBytes), ret |-> FALSE, took |-> <<numBytes>>]

\* case READ up to the fallthrough: ret says the call returned at line 84,
\* src is what is left of the chunk, took the numBytes of line 69
ReadStep(f, src) ==
    LET count == Len(src) \div 8
        numBytes == Min(f.frameLen - f.dataOffset \div 8, count)
        f1 == ReadInput(f, src, numBytes)
    IN IF count - numBytes <= 0
       THEN [f |-> f1, src |-> Rest(src, numBytes), ret |-> TRUE, took |-> <<numBytes>>]
       ELSE LET c == correlateU64(f.syncWord, f.syncLen,
                                  BitsAt(f1.rawData, 0, 8 * f.frameLen), f.frameLen)
            IN [f |-> [f1 EXCEPT !.syncOffset = c.offset, !.state = "DEOFFSET"],
                src |-> Rest(src, numBytes), ret |-> FALSE, took |-> <<numBytes>>]

\* lines 112-122: the frame is shifted to the start of _rawData and emitted,
\* then the bits kept for the next frame are set up
Emit(f) ==
    LET shifted == bitcpy(f.rawData, f.syncOffset, 8 * f.frameLen)
        frame == BitsAt(shifted, 0, 8 * f.frameLen)
        seeded == bitcpy(shifted, f.syncOffset, 8)
    IN [f |-> [f EXCEPT !.rawData = seeded, !.dataOffset = f.syncOffset % 8,
                        !.state = "READ"],
        frame |-> frame]

\* a DEOFFSET that takes a whole frame whatever is buffered already
DeoffsetStep_TakesWholeFrame(f, src) ==
    LET count == Len(src) \div 8
        numBytes == Min(f.frameLen, count)
        f1 == ReadInput(f, src, numBytes)
    IN IF count - numBytes <= 0
       THEN [f |-> f1, src |-> Rest(src, numBytes), ret |-> TRUE, frame |-> <<>>,
             took |-> <<numBytes>>]
       ELSE LET e == Emit(f1)
            IN [f |-> e.f, src |-> Rest(src, numBytes), ret |-> FALSE, frame |-> e.frame,
                took |-> <<numBytes>>]

\* case DEOFFSET: ret says the call returned at line 109
DeoffsetStep(f, src) ==
    LET count == Len(src) \div 8
        numBytes == Min(f.frameLen - (f.dataOffset - f.syncOffset) \div 8, count)
        f1 == ReadInput(f, src, numBytes)
    IN IF count - numBytes <= 0
       THEN [f |-> f1, src |-> Rest(src, numBytes), ret |-> TRUE, frame |-> <<>>,
             took |-> <<numBytes>>]
       ELSE LET e == Emit(f1)
            IN [f |-> e.f, src |-> Rest(src, numBytes), ret |-> FALSE, frame |-> e.frame,
                took |-> <<numBytes>>]

\* One iteration of the while loop of run, lines 65-129: case READ falls
\* through to case DEOFFSET.  ret says the call returned inside the
\* iteration, src is what is left of the chunk, frames the frame emitted (at
\* most one), took the numBytes values of lines 69 and 95.
Iteration(f, src) ==
    Only({ IF r.ret THEN [f |-> r.f, src |-> r.src, ret |-> TRUE, frames |-> <<>>,
                          took |-> r.took]
           ELSE Only({ [f |-> d.f, src |-> d.src, ret |-> d.ret,
                        frames |-> IF d.ret THEN <<>> ELSE <<d.frame>>,
                        took |-> r.took \o d.took] :
                         d \in {DeoffsetStep(r.f, r.src)} }) :
             r \in { IF f.state = "READ" THEN ReadStep(f, src)
                     ELSE [f |-> f, src |-> src, ret |-> FALSE, took |-> <<>>] } })

\* the while loop of run: [f |-> the framer afterwards, out |-> frames emitted]
RECURSIVE RunLoop(_, _, _)
RunLoop(f, src, emitted) ==
    IF Len(src) = 0 THEN [f |-> f, out |-> emitted]
    ELSE Only({ IF it.ret THEN [f |-> it.f, out |-> emitted]
                ELSE RunLoop(it.f, it.src, emitted \o it.frames) :
                  it \in {Iteration(f, src)} })

\* one call of run on a chunk (count > 0 bytes read from the input stream)
Run(f, chunk) == RunLoop(f, chunk, <<>>)

\* the framer as init leaves it; _rawData is new uint8_t[2*frameLen], whose
\* bytes are indeterminate: junk is what they happen to hold
FreshFramer(word, sl, fl, junk) ==
    [syncWord |-> word, syncLen |-> sl, frameLen |-> fl,
     rawData |-> Fill(junk, 16 * fl), state |-> "READ", dataOffset |-> 0,
     syncOffset |-> 0]

(***************************************************************************)
(* The decoder while a specification of the framer runs: constructed for   *)
(* one fragment and never called.                                          *)
(***************************************************************************)
DecoderIdle ==
    /\ fragCount = 1
    /\ calibData = <<0, 0>>
    /\ calibDataBitmap = <<255>>
    /\ calibrated = FALSE
    /\ stray = FALSE
    /\ applied = {}
    /\ pc = "idle"
    /\ numFrames = 0
    /\ i = 0
    /\ outCount = 0
    /\ sondeData = <<>>
    /\ rawFrame = <<>>
    /\ rsFailed = FALSE
    /\ walked = <<>>
    /\ nCalls = 0
    /\ lastArg = <<>>
    /\ ret = 0

(***************************************************************************)
(* The framer under a run of run calls and setInput calls.                 *)
(***************************************************************************)
\* The sync words the framers of the model are built with.
SyncWord8 == U64(<<16, 182, 202, 17, 34, 150, 18, 248>>)
SyncWordAAAA == U64(<<170, 170>>)

\* [word, syncLen, frameLen] of the framers of the model
Framer8 == [word |-> SyncWord8, syncLen |-> 8, frameLen |-> 10]
Framer2 == [word |-> SyncWordAAAA, syncLen |-> 2, frameLen |-> 4]

\* the low 8*sl bits of a sync word: the pattern as it is transmitted
Pattern(word, sl) == BitsAt(word, 64 - 8 * sl, 8 * sl)

\* a transmitted frame: the pattern, then a payload of the bit pay
TxFrame(cfg, pay) ==
    Pattern(cfg.word, cfg.syncLen) \o Fill(pay, 8 * (cfg.frameLen - cfg.syncLen))

\* An input stream: slip bits of lead, then frames back to back (payloads
\* of zeros and of ones alternate), cut to MaxStream bytes.
StreamOf(cfg, slip, lead) ==
    LET two == TxFrame(cfg, 0) \o TxFrame(cfg, 1)
        long == Fill(lead, slip) \o two \o two \o two \o two \o two \o two \o two
    IN BitsAt(long, 0, 8 * MaxStream)

\* the framers and the streams of the model: [cfg, slip, lead]
FramerInputs ==
    { [cfg |-> Framer8, slip |-> 0, lead |-> 0],
      [cfg |-> Framer8, slip |-> 3, lead |-> 0],
      [cfg |-> Framer8, slip |-> 4, lead |-> 1],
      [cfg |-> Framer8, slip |-> 6, lead |-> 1],
      [cfg |-> Framer8, slip |-> 8, lead |-> 0],
      [cfg |-> Framer8, slip |-> 11, lead |-> 1],
      [cfg |-> Framer2, slip |-> 0, lead |-> 0],
      [cfg |-> Framer2, slip |-> 3, lead |-> 1] }

\* the values of fed at which the upstream block may call setInput
ResetPoints == {5, 11}

\* no run call has been made
NoCall == [active |-> FALSE, src |-> <<>>, took |-> <<>>, idle |-> 0]

framerState ==
    [syncWord |-> syncWord, syncLen |-> syncLen, frameLen |-> frameLen,
     rawData |-> rawData, state |-> state, dataOffset |-> dataOffset,
     syncOffset |-> syncOffset]

CorrIdle == cFrame = <<>> /\ cDone = FALSE /\ cResult = [offset |-> 0, inverted |-> 0]

FramerInit ==
    /\ \E in \in FramerInputs, junk \in {0, 1} :
          /\ syncWord = in.cfg.word
          /\ syncLen = in.cfg.syncLen
          /\ frameLen = in.cfg.frameLen
          /\ rawData = Fill(junk, 16 * in.cfg.frameLen)
          /\ stream = StreamOf(in.cfg, in.slip, in.lead)
    /\ state = "READ"
    /\ dataOffset = 0
    /\ syncOffset = 0
    /\ out = <<>>
    /\ fed = 0
    /\ base = 0
    /\ outBase = 0
    /\ resets = 0
    /\ chunks = [one |-> FALSE, short |-> FALSE]
    /\ call = NoCall
    /\ CorrIdle
    /\ DecoderIdle

\* the upstream block delivers the next n bytes and run is called once
RunCall(n) ==
    /\ ~call.active
    /\ fed + n <= MaxStream
    /\ LET r == Run(framerState, BitsAt(stream, 8 * fed, 8 * n))
       IN /\ rawData' = r.f.rawData
          /\ state' = r.f.state
          /\ dataOffset' = r.f.dataOffset
          /\ syncOffset' = r.f.syncOffset
          /\ out' = out \o r.out
    /\ fed' = fed + n
    /\ chunks' = [one |-> chunks.one \/ n = 1, short |-> chunks.short \/ n < frameLen]
    /\ UNCHANGED <<syncWord, syncLen, frameLen, stream, base, outBase, resets, call,
                   corrVars, decVars>>

\* a setInput that leaves _dataOffset as it is
setInput_KeepsDataOffset ==
    /\ ~call.active
    /\ resets < MaxResets
    /\ fed \in ResetPoints
    /\ state' = "READ"
    /\ base' = fed
    /\ outBase' = Len(out)
    /\ resets' = resets + 1
    /\ UNCHANGED <<syncWord, syncLen, frameLen, rawData, dataOffset, syncOffset, out, stream,
                   fed, chunks, call, corrVars, decVars>>

\* dsp::Framer::setInput
setInput ==
    /\ ~call.active
    /\ resets < MaxResets
    /\ fed \in ResetPoints
    /\ state' = "READ"
    /\ dataOffset' = 0
    /\ base' = fed
    /\ outBase' = Len(out)
    /\ resets' = resets + 1
    /\ UNCHANGED <<syncWord, syncLen, frameLen, rawData, syncOffset, out, stream, fed, chunks,
                   call, corrVars, decVars>>

FramerNext == (\E n \in 1..MaxStream : RunCall(n)) \/ setInput

FramerSpec == FramerInit /\ [][FramerNext]_vars

(***************************************************************************)
(* The framer with run taken one loop iteration at a time.                 *)
(***************************************************************************)
\* run is entered and _in->read() returns n bytes: lines 59-63
RunEnter(n) ==
    /\ ~call.active
    /\ fed + n <= MaxStream
    /\ call' = [active |-> TRUE, src |-> BitsAt(stream, 8 * fed, 8 * n), took |-> <<>>,
                idle |-> 0]
    /\ chunks' = [one |-> chunks.one \/ n = 1, short |-> chunks.short \/ n < frameLen]
    /\ UNCHANGED <<syncWord, syncLen, frameLen, rawData, state, dataOffset, syncOffset, out,
                   stream, fed, base, outBase, resets, corrVars, decVars>>

\* one iteration of the while loop, entered with count > 0; the call may
\* return inside it (lines 81-85 and 106-110)
RunIterate ==
    /\ call.active
    /\ Len(call.src) > 0
    /\ \E it \in {Iteration(framerState, call.src)} :
          /\ rawData' = it.f.rawData
          /\ state' = it.f.state
          /\ dataOffset' = it.f.dataOffset
          /\ syncOffset' = it.f.syncOffset
          /\ out' = out \o it.frames
          /\ fed' = fed + (Len(call.src) - Len(it.src)) \div 8
          /\ call' = [active |-> ~it.ret, src |-> it.src, took |-> it.took,
                      idle |-> IF Len(it.src) < Len(call.src) \/ it.frames # <<>>
                               THEN 0 ELSE call.idle + 1]
    /\ UNCHANGED <<syncWord, syncLen, frameLen, stream, base, outBase, resets, chunks,
                   corrVars, decVars>>

\* the loop condition count > 0 fails and run returns: lines 132-134
RunReturn ==
    /\ call.active
    /\ Len(call.src) = 0
    /\ call' = [call EXCEPT !.active = FALSE]
    /\ UNCHANGED <<syncWord, syncLen, frameLen, rawData, state, dataOffset, syncOffset, out,
                   stream, fed, base, outBase, resets, chunks, corrVars, decVars>>

StepNext == (\E n \in 0..MaxStream : RunEnter(n)) \/ RunIterate \/ RunReturn \/ setInput

\* run is sequential code on the block's worker thread: once entered, the
\* loop keeps taking its next step
StepSpec ==
    FramerInit /\ [][StepNext]_vars /\ WF_vars(RunIterate) /\ WF_vars(RunReturn)

(***************************************************************************)
(* correlateU64 on its own: a framer is built, a frame is buffered and     *)
(* correlateU64 is called on it once.                                      *)
(***************************************************************************)
SyncWordA5 == U64(<<165>>)
Framer1 == [word |-> SyncWordA5, syncLen |-> 1, frameLen |-> 3]
Framer2Long == [word |-> SyncWordAAAA, syncLen |-> 2, frameLen |-> 10]

CorrConfigs == {Framer1, Framer2Long, Framer8}

\* the bitwise inverse of a bit sequence
Inverse(w) == [k \in 1..Len(w) |-> 1 - w[k]]

\* a frame of the bit bg with the pattern of cfg, inverted or not, from bit k
FrameWith(cfg, k, inv, bg) ==
    LET pat == Pattern(cfg.word, cfg.syncLen)
    IN WriteBits(Fill(bg, 8 * cfg.frameLen), k, IF inv THEN Inverse(pat) ELSE pat)

FramerIdle ==
    /\ rawData = <<>>
    /\ state = "READ"
    /\ dataOffset = 0
    /\ syncOffset = 0
    /\ out = <<>>
    /\ stream = <<>>
    /\ fed = 0
    /\ base = 0
    /\ outBase = 0
    /\ resets = 0
    /\ chunks = [one |-> FALSE, short |-> FALSE]
    /\ call = NoCall

CorrInit ==
    /\ \E cfg \in CorrConfigs :
         \E k \in 0..(8 * cfg.frameLen - 8 * cfg.syncLen - 1), inv \in BOOLEAN, bg \in {0, 1} :
            /\ syncWord = cfg.word
            /\ syncLen = cfg.syncLen
            /\ frameLen = cfg.frameLen
            /\ cFrame = FrameWith(cfg, k, inv, bg)
    /\ cDone = FALSE
    /\ \E before \in {0, 1} : cResult = [offset |-> 0, inverted |-> before]
    /\ FramerIdle
    /\ DecoderIdle

\* _syncOffset = correlateU64(&inverted, _rawData, _frameLen), line 88
Correlate ==
    /\ ~cDone
    /\ cDone' = TRUE
    /\ \E r \in {correlateU64(syncWord, syncLen, cFrame, frameLen)} :
          cResult' = [offset |-> r.offset,
                      inverted |-> IF r.inverted = Unwritten THEN cResult.inverted
                                   ELSE r.inverted]
    /\ UNCHANGED <<framerVars, cFrame, decVars>>

CorrNext == Correlate

CorrSpec == CorrInit /\ [][CorrNext]_vars

(***************************************************************************)
(* Claims about correlateU64.                                              *)
(***************************************************************************)
\* the Hamming distance between the pattern pat and the window of frame that
\* starts at bit offset k
Distance(frame, pat, k) == Cardinality({b \in 1..Len(pat) : frame[k + b] # pat[b]})

\* the smaller of the distances to the pattern and to the inverted pattern
BestAt(frame, pat, k) == Min(Distance(frame, pat, k), Len(pat) - Distance(frame, pat, k))

\* the earliest bit offset in [0, 8*fl - Len(pat)) where BestAt is minimal
EarliestBest(frame, pat, fl) ==
    CHOOSE k \in 0..(8 * fl - Len(pat) - 1) :
        \A j \in 0..(8 * fl - Len(pat) - 1) :
            /\ BestAt(frame, pat, k) <= BestAt(frame, pat, j)
            /\ j < k => BestAt(frame, pat, k) < BestAt(frame, pat, j)

\* C3: sync correctness.  correlateU64 returns the earliest bit offset at which
\* the distance to the sync pattern or to its inverse is minimal, for every
\* sync length 1..8.
C3_SyncCorrectness ==
    cDone => cResult.offset = EarliestBest(cFrame, Pattern(syncWord, syncLen), frameLen)

\* C3 restricted to sync length 8, where syncMask covers the whole word
C3_SyncCorrectness8 ==
    (cDone /\ syncLen = 8) =>
        cResult.offset = EarliestBest(cFrame, Pattern(syncWord, syncLen), frameLen)

\* C3's concrete scenario: pattern 0xAAAA, syncLen 2, frameLen 10, embedded at
\* bit 37 of a frame of zeros: correlation must return 37
C3_Scenario37 ==
    (cDone /\ syncLen = 2 /\ cFrame = FrameWith(Framer2Long, 37, FALSE, 0)) =>
        cResult.offset = 37

\* the sliding window of correlateU64 at the start of iteration t of the
\* search loop (line 185 shifts one bit of the frame in per iteration)
RECURSIVE WindowAt(_, _, _)
WindowAt(frame, sl, t) ==
    IF t = 0 THEN InitialWindow(frame, sl)
    ELSE Shl1Or(WindowAt(frame, sl, t - 1), frame[8 * sl + t])

\* the distance correlateU64 computes at lines 154 and 166 for the window at t
ComputedDistance(word, sl, frame, t) ==
    inverseCorrelateU64(And64(word, SyncMask(sl)), And64(WindowAt(frame, sl, t), SyncMask(sl)))

\* C13: for every sync length 1..8 the mask is 2^(8*syncLen) - 1, and every
\* distance correlateU64 computes is the Hamming distance between the low
\* 8*syncLen bits of the sync pattern and of the sliding window.
C13_SyncComparisonWidth ==
    cDone =>
        /\ SyncMask(syncLen) = Fill(0, 64 - 8 * syncLen) \o Fill(1, 8 * syncLen)
        /\ \A t \in 0..(8 * (frameLen - syncLen) - 1) :
              ComputedDistance(syncWord, syncLen, cFrame, t)
                  = Distance(cFrame, Pattern(syncWord, syncLen), t)

\* C13 restricted to sync length 8
C13_SyncComparisonWidth8 ==
    (cDone /\ syncLen = 8) =>
        /\ SyncMask(syncLen) = Fill(0, 64 - 8 * syncLen) \o Fill(1, 8 * syncLen)
        /\ \A t \in 0..(8 * (frameLen - syncLen) - 1) :
              ComputedDistance(syncWord, syncLen, cFrame, t)
                  = Distance(cFrame, Pattern(syncWord, syncLen), t)

\* the flag the comparisons at offset t call for: 1 when the distance to the
\* inverted pattern (line 177) is the smaller one, 0 otherwise
WinnerAt(word, sl, frame, t) ==
    LET corr == ComputedDistance(word, sl, frame, t)
    IN IF sl * 8 - corr < corr THEN 1 ELSE 0

\* C14: after a correlateU64 call the inversion flag is 1 if the returned
\* offset was won by the inverted pattern and 0 if it was won by the pattern,
\* offset 0 included; it never keeps the value it had before the call.
C14_InversionFlag ==
    cDone => cResult.inverted = WinnerAt(syncWord, syncLen, cFrame, cResult.offset)

\* C14 restricted to the calls that assign the flag
C14_InversionFlagWhenWritten ==
    (cDone /\ correlateU64(syncWord, syncLen, cFrame, frameLen).inverted # Unwritten) =>
        cResult.inverted = WinnerAt(syncWord, syncLen, cFrame, cResult.offset)

(***************************************************************************)
(* Claims about the framer.                                                *)
(***************************************************************************)
\* what a single run call on the first n bytes of the stream returns when
\* the framer is freshly initialised
SingleCall(n) == Run(FreshFramer(syncWord, syncLen, frameLen, 0), BitsAt(stream, 0, 8 * n))

\* C1: chunk-split independence.  However the bytes submitted so far were cut
\* into run calls on a freshly initialised framer (no setInput since), the
\* frames emitted over those calls are exactly the frames one run call on all
\* of these bytes emits.
C1_ChunkSplitIndependence ==
    resets = 0 => out = SingleCall(fed).out

\* C1 witness: two different frames came out of a stream that was cut into
\* chunks, one of them a single byte, the first frame taken from a bit offset
\* of the stream that is not a byte boundary.
C1_Witness ==
    /\ resets = 0
    /\ chunks.one
    /\ Len(out) >= 2
    /\ out[1] # out[2]
    /\ \E k \in 1..7 : out[1] = BitsAt(stream, k, 8 * frameLen)

\* C2: no data loss.  With no setInput so far, the bits of the frames emitted
\* plus the bits kept in the accumulator are the bits submitted.
C2_NoDataLoss ==
    resets = 0 => 8 * frameLen * Len(out) + dataOffset = 8 * fed

\* In a suspended DEOFFSET, the bytes the frame still lacks, the framer once
\* the next call has taken them from the stream, and that framer after the
\* emission of lines 112-122.
LackingOf(f) == f.frameLen - (f.dataOffset - f.syncOffset) \div 8
CompletedOf(f) == ReadInput(f, BitsAt(stream, 8 * fed, 8 * LackingOf(f)), LackingOf(f))
Lacking == LackingOf(framerState)
Completed == CompletedOf(framerState)
AfterEmission == Emit(Completed).f
\* the stream position of the bit that follows the last bit of that frame
FrameEnd == 8 * (fed + Lacking) - Completed.dataOffset + syncOffset + 8 * frameLen

\* C12: right after a frame emission the framer is in READ with _dataOffset =
\* _syncOffset mod 8, and the first _dataOffset bits of the accumulator are the
\* stream bits that follow the last bit of the emitted frame.
C12_LeftoverBitsSeedNextFrame ==
    (state = "DEOFFSET" /\ fed + Lacking + 1 <= MaxStream) =>
        /\ AfterEmission.state = "READ"
        /\ AfterEmission.dataOffset = syncOffset % 8
        /\ BitsAt(AfterEmission.rawData, 0, AfterEmission.dataOffset)
             = BitsAt(stream, FrameEnd, AfterEmission.dataOffset)

\* the framer in DEOFFSET as line 88-89 leave it when correlation returns so
Correlated(so) == [framerState EXCEPT !.syncOffset = so, !.state = "DEOFFSET"]

\* C17: in every framer state 0 <= _dataOffset <= 2*frameLen*8 and the bytes
\* written into the accumulator (a read ends at byte CEILDIV(_dataOffset, 8))
\* lie within its 2*frameLen bytes, for any sync offset correlation can
\* return; right after a frame emission _dataOffset < 8.
C17_AccumulatorBound ==
    /\ 0 <= dataOffset
    /\ dataOffset <= 2 * frameLen * 8
    /\ CEILDIV(dataOffset, 8) <= 2 * frameLen
    /\ Len(rawData) = 2 * frameLen * 8
    /\ (state = "DEOFFSET" /\ fed + Lacking + 1 <= MaxStream) =>
           (0 <= AfterEmission.dataOffset /\ AfterEmission.dataOffset < 8)
    /\ (state = "READ" /\ dataOffset \div 8 = frameLen) =>
           \A so \in 0..(8 * (frameLen - syncLen) - 1) :
               /\ LackingOf(Correlated(so)) >= 0
               /\ fed + LackingOf(Correlated(so)) <= MaxStream =>
                   \E f \in {CompletedOf(Correlated(so))} :
                       /\ f.dataOffset <= 2 * frameLen * 8
                       /\ CEILDIV(f.dataOffset, 8) <= 2 * frameLen
                       /\ Len(f.rawData) = 2 * frameLen * 8
                       /\ Emit(f).f.dataOffset < 8

\* C17 witness: an earlier emission left bits in the accumulator, READ has
\* filled it to a frame and suspended, and for the largest offset correlation
\* can return the frame completes 7 bits past a byte boundary, the fullest
\* the accumulator gets.
C17_Witness ==
    /\ state = "READ"
    /\ Len(out) >= 1
    /\ dataOffset > 8 * frameLen
    /\ fed + LackingOf(Correlated(8 * (frameLen - syncLen) - 1)) <= MaxStream
    /\ CompletedOf(Correlated(8 * (frameLen - syncLen) - 1)).dataOffset
         = 8 * frameLen + 8 * (frameLen - syncLen) - 1 + 7

\* C18: a framer that a run call left in READ holds fewer than frameLen
\* bytes: once frameLen bytes are buffered, correlation runs in that same
\* call and the state is DEOFFSET.
C18_ReadSuspendsOnlyWhenShort ==
    state = "READ" => dataOffset \div 8 < frameLen

\* what one run call of a freshly initialised framer emits for the bytes
\* submitted since the last setInput
FreshSinceReset ==
    Run(FreshFramer(syncWord, syncLen, frameLen, 0), BitsAt(stream, 8 * base, 8 * (fed - base))).out

\* C19: setInput leaves _state = READ and _dataOffset = 0 from any framer
\* state, and the frames emitted for the input after it are the frames a
\* freshly initialised framer emits for that input.
C19_ResetRestartsFromRead ==
    /\ [][resets' # resets => (state' = "READ" /\ dataOffset' = 0)]_vars
    /\ [](resets >= 1 => SubSeq(out, outBase + 1, Len(out)) = FreshSinceReset)

\* C19 witness: setInput was called after 11 bytes, with a frame partly
\* buffered, and a frame has been emitted since: the frame that starts at the
\* first sync pattern of the input after the reset, at a bit offset that is
\* not a byte boundary.
C19_Witness ==
    /\ resets = 1
    /\ base = 11
    /\ frameLen = 10
    /\ Len(out) = outBase + 1
    /\ syncOffset % 8 # 0
    /\ out[Len(out)] = BitsAt(stream, 8 * base + syncOffset, 8 * frameLen)
    /\ BitsAt(out[Len(out)], 0, 8 * syncLen) = Pattern(syncWord, syncLen)

\* A measure of what is left of a run call: twice the bytes of the chunk not
\* yet taken, plus one unless the next iteration starts in READ with less
\* than a frame buffered (as after an emission) and so takes a byte.
Variant ==
    2 * (Len(call.src) \div 8)
    + (IF state = "READ" /\ dataOffset \div 8 < frameLen THEN 0 ELSE 1)

\* C20: run terminates with its chunk consumed.  The byte counts taken in
\* READ and in DEOFFSET are never negative; no two iterations in a row take
\* no byte and emit no frame; every iteration lowers Variant, a natural
\* number, so the loop ends; a call that has returned has no byte of its
\* chunk left and is in READ or DEOFFSET; a step that stays in DEOFFSET keeps
\* _syncOffset.
C20_RunTerminatesChunkConsumed ==
    /\ [](\A k \in 1..Len(call.took) : call.took[k] >= 0)
    /\ [](call.idle <= 1)
    /\ [](~call.active => (Len(call.src) = 0 /\ state \in {"READ", "DEOFFSET"}))
    /\ [][(call.active /\ Len(call.src) > 0) => Variant' < Variant]_vars
    /\ [][(state = "DEOFFSET" /\ state' = "DEOFFSET") => syncOffset' = syncOffset]_vars

\* C20 witness: a call has returned from DEOFFSET in an iteration that took
\* bytes in READ and in DEOFFSET, after an earlier iteration of the same call
\* emitted a frame, with a sync offset that is not a byte boundary.
C20_Witness ==
    /\ ~call.active
    /\ state = "DEOFFSET"
    /\ syncOffset % 8 # 0
    /\ Len(out) >= 1
    /\ Len(call.took) = 2
    /\ call.took[1] > 0
    /\ call.took[2] > 0
    /\ resets = 0
    /\ ~chunks.short

(***************************************************************************)
(* RS41Decoder.  A frame is a sequence of bytes 0..255: the extended_flag  *)
(* byte, then the RS41_DATA_LEN + RS41_XDATA_LEN bytes of data.  The sync  *)
(* word and the Reed-Solomon parity bytes, which only the Reed-Solomon     *)
(* engine reads, are left out.  The sizes of rs41.h are scaled down.       *)
(***************************************************************************)
RS41_DATA_LEN == 16
RS41_XDATA_LEN == 6
RS41_FLAG_EXTENDED == 240
RS41_PRN_PERIOD == 64
RS41_CALIB_FRAGSIZE == 2
RS41_SFTYPE_EMPTY == 118
RS41_SFTYPE_INFO == 121
RS41_SFTYPE_PTU == 122
RS41_SFTYPE_GPSPOS == 123
RS41_SFTYPE_GPSINFO == 124
RS41_SFTYPE_GPSRAW == 125
RS41_SFTYPE_XDATA == 126
CCITT_FALSE_POLY == 4129
CCITT_FALSE_INIT == 65535

\* _prn of decoder.cpp
prn ==
    << 150, 131,  62,  81, 177,  73,   8, 152,
        50,   5,  89,  14, 249,  68, 198,  38,
        33,  96, 194, 234, 121,  93, 109, 161,
        84, 105,  71,  12, 220, 232,  92, 241,
       247, 118, 130, 127,   7, 153, 162,  44,
       147, 124,  48,  99, 245,  16,  46,  97,
       208, 188, 180, 182,   6, 170, 244,  35,
       120, 110,  59, 174, 191, 123,  76, 193 >>

\* a ^ b on n-bit values
RECURSIVE XorBits(_, _, _)
XorBits(a, b, n) ==
    IF n = 0 THEN 0
    ELSE ((a + b) % 2) + 2 * XorBits(a \div 2, b \div 2, n - 1)

\* a & b on n-bit values
RECURSIVE AndBits(_, _, _)
AndBits(a, b, n) ==
    IF n = 0 THEN 0
    ELSE ((a % 2) * (b % 2)) + 2 * AndBits(a \div 2, b \div 2, n - 1)

XorNibble == [a \in 0..15 |-> [b \in 0..15 |-> XorBits(a, b, 4)]]

\* a ^ b on bytes and on uint16_t
Xor8(a, b) == 16 * XorNibble[a \div 16][b \div 16] + XorNibble[a % 16][b % 16]
Xor16(a, b) == 256 * Xor8(a \div 256, b \div 256) + Xor8(a % 256, b % 256)

\* the byte b with its bits in reverse order (the inner loop of descramble)
RECURSIVE ReverseBits(_, _)
ReverseBits(b, n) ==
    IF n = 0 THEN 0
    ELSE (b % 2) * Pow2(n - 1) + ReverseBits(b \div 2, n - 1)

Reversed == [b \in 0..255 |-> ReverseBits(b, 8)]

\* RS41Decoder::descramble: rawFrame[i] = 0xFF ^ tmp ^ _prn[i % RS41_PRN_PERIOD],
\* tmp the byte with its bits reversed.  Sequences start at 1, so byte i of
\* the frame is element i + 1.
descramble(raw) ==
    [k \in 1..Len(raw) |->
        Xor8(Xor8(255, Reversed[raw[k]]), prn[((k - 1) % RS41_PRN_PERIOD) + 1])]

\* crc16 of utils.c: CRC-16 with the given polynomial and initial value, most
\* significant bit first, no reflection, no final xor
RECURSIVE CrcShift(_, _, _)
CrcShift(poly, crc, n) ==
    IF n = 0 THEN crc
    ELSE CrcShift(poly,
                  IF crc >= 32768 THEN Xor16((crc * 2) % 65536, poly) ELSE crc * 2,
                  n - 1)

CrcTable == [b \in 0..255 |-> CrcShift(CCITT_FALSE_POLY, b * 256, 8)]

RECURSIVE crc16(_, _, _)
crc16(crc, data, len) ==
    IF len = 0 THEN crc
    ELSE crc16(Xor16((crc % 256) * 256, CrcTable[Xor8(crc \div 256, Head(data))]),
               Tail(data), len - 1)

\* frame->extended_flag and frame->data[j]; a read past the frame finds the
\* next bytes of the input buffer, taken as 0
ExtendedFlag(fr) == fr[1]
Data(fr, j) == IF j + 2 <= Len(fr) THEN fr[j + 2] ELSE 0
DataBytes(fr, j, n) == [k \in 1..n |-> Data(fr, j + k - 1)]

\* bytesLeft of run, line 92
BytesLeft(fr) ==
    RS41_DATA_LEN + (IF ExtendedFlag(fr) = RS41_FLAG_EXTENDED THEN RS41_XDATA_LEN ELSE 0)

\* The sub-record at data offset o: RS41Subframe is type, len, data[len], then
\* the two checksum bytes.
SubType(fr, o) == Data(fr, o)
SubLen(fr, o) == Data(fr, o + 1)

\* a crcCheck that accepts every sub-record
crcCheck_AcceptsAll(fr, o) == TRUE

\* RS41Decoder::crcCheck
crcCheck(fr, o) ==
    LET len == SubLen(fr, o)
        checksum == crc16(CCITT_FALSE_INIT, DataBytes(fr, o + 2, len), len)
        expected == Data(fr, o + 2 + len) + 256 * Data(fr, o + 2 + len + 1)
    IN checksum = expected

\* RS41Subframe_Status after type and len: frame_seq, serial, frag_seq and
\* frag_data[RS41_CALIB_FRAGSIZE] (one byte each for frame_seq and serial)
StatusFrameSeq(fr, o) == Data(fr, o + 2)
StatusSerial(fr, o) == Data(fr, o + 3)
StatusFragSeq(fr, o) == Data(fr, o + 4)
StatusFragData(fr, o) == DataBytes(fr, o + 5, RS41_CALIB_FRAGSIZE)

\* RS41Subframe_GPSPos after type and len: position and velocity, one byte each
GpsPosX(fr, o) == Data(fr, o + 2)
GpsPosDx(fr, o) == Data(fr, o + 3)

\* sizeof(_calibDataBitmap) for a build with f fragments
BitmapSize(f) == f \div 8 + 1

\* RS41Decoder::init, lines 52-53: memset to 0xFF, then the last byte is
\* and-ed with ~(1 << (7 - RS41_CALIB_FRAGCOUNT%8)) - 1
InitBitmap(f) ==
    [k \in 1..BitmapSize(f) |->
        IF k < BitmapSize(f) THEN 255
        ELSE AndBits(255, ((-Pow2(7 - (f % 8)) - 1) - 1) % 256, 8)]

\* _calibData.burstkill_timer: the first two bytes of the record, low byte first
BurstkillTimer(cd) == cd[1] + 256 * cd[2]

\* a SondeData as constructed; the position and velocity fields hold terms
\* (see below), Zero the term of a zero-initialised field
Zero == <<"zero">>

DefaultSondeData ==
    [calibrated |-> FALSE, serial |-> 0, burstkill |-> 0, seq |-> 0,
     lat |-> Zero, lon |-> Zero, alt |-> Zero, spd |-> Zero, hdg |-> Zero,
     climb |-> Zero]

\* ecef_to_lla and ecef_to_spd_hdg of decode/gps/ecef.h: the values they
\* store, as terms over their arguments
EcefLat(x) == <<"lat", x>>
EcefLon(x) == <<"lon", x>>
EcefAlt(x) == <<"alt", x>>
EcefSpd(lat, lon, dx) == <<"spd", lat, lon, dx>>
EcefHdg(lat, lon, dx) == <<"hdg", lat, lon, dx>>
EcefClimb(lat, lon, dx) == <<"climb", lat, lon, dx>>

\* What the memcpy of updateCalibData overwrites when it writes past the end
\* of _calibData: members of the decoder that the build places behind it,
\* or memory the model does not hold.
StrayHits == {"elsewhere", "bitmap", "calibrated"}

\* RS41Decoder::updateCalibData on the decoder d, a record of the values of
\* fragCount, calibData, calibDataBitmap, calibrated, stray, applied, sondeData
\* and of hit, the member a write past the end of _calibData lands on.
updateCalibData(d, fragSeq, fragData) ==
    LET fragOffset == fragSeq * RS41_CALIB_FRAGSIZE
        inData == fragOffset + RS41_CALIB_FRAGSIZE <= Len(d.calibData)
        cd == IF inData
              THEN [k \in 1..Len(d.calibData) |->
                       IF k > fragOffset /\ k <= fragOffset + RS41_CALIB_FRAGSIZE
                       THEN fragData[k - fragOffset] ELSE d.calibData[k]]
              ELSE d.calibData
        \* the members after the memcpy, line 242
        bm0 == IF ~inData /\ d.hit = "bitmap"
               THEN [d.calibDataBitmap EXCEPT ![1] = fragData[1]]
               ELSE d.calibDataBitmap
        cal0 == IF ~inData /\ d.hit = "calibrated"
                THEN fragData[1] # 0
                ELSE d.calibrated
        byte == fragSeq \div 8 + 1
        inBitmap == byte <= Len(bm0)
        bit == Pow2(fragSeq % 8)
        bm == IF inBitmap /\ (bm0[byte] \div bit) % 2 = 1
              THEN [bm0 EXCEPT ![byte] = @ - bit]
              ELSE bm0
        allClear == \A k \in 1..Len(bm) : bm[k] = 0
    IN [d EXCEPT !.calibData = cd,
                 !.calibDataBitmap = bm,
                 !.calibrated = IF allClear THEN TRUE ELSE cal0,
                 !.stray = @ \/ ~inData \/ ~inBitmap,
                 !.applied = @ \cup {fragSeq}]

\* RS41Decoder::updateSondeData on the sub-record at data offset o
updateSondeData(d, fr, o) ==
    IF SubType(fr, o) = RS41_SFTYPE_INFO
    THEN LET d1 == updateCalibData(d, StatusFragSeq(fr, o), StatusFragData(fr, o))
             timer == BurstkillTimer(d1.calibData)
         IN [d1 EXCEPT !.sondeData =
                [@ EXCEPT !.calibrated = d1.calibrated,
                          !.serial = StatusSerial(fr, o),
                          !.burstkill = IF timer = 65535 THEN -1 ELSE timer,
                          !.seq = StatusFrameSeq(fr, o)]]
    ELSE IF SubType(fr, o) = RS41_SFTYPE_GPSPOS
    THEN LET x == GpsPosX(fr, o)
             dx == GpsPosDx(fr, o)
             lat == EcefLat(x)
             lon == EcefLon(x)
         IN [d EXCEPT !.sondeData =
                [@ EXCEPT !.lat = lat, !.lon = lon, !.alt = EcefAlt(x),
                          !.spd = EcefSpd(lat, lon, dx),
                          !.hdg = EcefHdg(lat, lon, dx),
                          !.climb = EcefClimb(lat, lon, dx)]]
    ELSE d

\* The sub-record walk of run, lines 93-106, from data offset o of the
\* descrambled frame fr: [d |-> the decoder afterwards, log |-> one entry per
\* sub-record whose end was within bounds]
\* a walk without the bound check of line 99
RECURSIVE Walk_NoBoundCheck(_, _, _, _)
Walk_NoBoundCheck(d, fr, o, log) ==
    IF ~(o < BytesLeft(fr)) THEN [d |-> d, log |-> log]
    ELSE LET next == o + SubLen(fr, o) + 4
         IN IF ~crcCheck(fr, o)
            THEN Walk_NoBoundCheck(d, fr, next,
                      Append(log, [offset |-> o, dispatched |-> FALSE, changed |-> FALSE]))
            ELSE LET d1 == updateSondeData(d, fr, o)
                 IN Walk_NoBoundCheck(d1, fr, next,
                         Append(log, [offset |-> o, dispatched |-> TRUE,
                                      changed |-> d1 # d]))

RECURSIVE Walk(_, _, _, _)
Walk(d, fr, o, log) ==
    IF ~(o < BytesLeft(fr)) THEN [d |-> d, log |-> log]
    ELSE LET next == o + SubLen(fr, o) + 4
         IN IF next > BytesLeft(fr) THEN [d |-> d, log |-> log]
            ELSE IF ~crcCheck(fr, o)
            THEN Walk(d, fr, next,
                      Append(log, [offset |-> o, dispatched |-> FALSE, changed |-> FALSE]))
            ELSE LET d1 == updateSondeData(d, fr, o)
                 IN Walk(d1, fr, next,
                         Append(log, [offset |-> o, dispatched |-> TRUE,
                                      changed |-> d1 # d]))

\* a loop body that calls the handler only for a frame with a dispatched
\* sub-record
FrameStep_HandlerOnDispatchOnly(d, raw) ==
    LET w == Only({ Walk(d, fr, 0, <<>>) : fr \in {descramble(raw)} })
    IN [d |-> w.d, log |-> w.log,
        handled |-> IF \E k \in 1..Len(w.log) : w.log[k].dispatched
                    THEN <<w.d.sondeData>> ELSE <<>>]

\* One iteration of the loop of run, lines 86-109, on the frame raw of the
\* input buffer: the frame is descrambled (Reed-Solomon decoding returns the
\* bytes it was given), walked, and the handler is called with sondeData.
\* handled is the sequence of records the handler was called with.
FrameStep(d, raw) ==
    LET w == Only({ Walk(d, fr, 0, <<>>) : fr \in {descramble(raw)} })
    IN [d |-> w.d, log |-> w.log, handled |-> <<w.d.sondeData>>]

\* the outcomes of that iteration, one for each member a write past the end
\* of _calibData can land on
FrameSteps(d, raw) == { FrameStep([d EXCEPT !.hit = h], raw) : h \in StrayHits }

(***************************************************************************)
(* The frames the model feeds the decoder.                                 *)
(***************************************************************************)
\* a sub-record as transmitted: type, len, payload, CRC low byte, high byte
SubRecord(type, payload) ==
    LET crc == crc16(CCITT_FALSE_INIT, payload, Len(payload))
    IN <<type, Len(payload)>> \o payload \o <<crc % 256, crc \div 256>>

\* the sub-record with its last checksum byte corrupted
Corrupt(sub) == [sub EXCEPT ![Len(sub)] = Xor8(@, 1)]

\* the sub-record with another declared length
WithLen(sub, n) == [sub EXCEPT ![2] = n]

Status(seq, serial, fragSeq, fragData) ==
    SubRecord(RS41_SFTYPE_INFO, <<seq, serial, fragSeq>> \o fragData)
GpsPos(x, dx) == SubRecord(RS41_SFTYPE_GPSPOS, <<x, dx>>)
Ptu == SubRecord(RS41_SFTYPE_PTU, <<9>>)

\* the frame with the given flag byte and sub-records, zero padded
PlainFrame(flag, subs) ==
    <<flag>> \o subs \o [k \in 1..(RS41_DATA_LEN + RS41_XDATA_LEN - Len(subs)) |-> 0]

\* what the transmitter sends for a frame: the inverse of descramble
Scramble(plain) ==
    [k \in 1..Len(plain) |->
        Reversed[Xor8(Xor8(255, plain[k]), prn[((k - 1) % RS41_PRN_PERIOD) + 1])]]

\* an input frame: the bytes read and whether Reed-Solomon decoding succeeds
Input(plain, rsOk) == [raw |-> Scramble(plain), rsOk |-> rsOk]

StandardFlag == 0

\* the frames of the runs of the sub-record walk
WalkInputs ==
    LET s0 == Status(1, 65, 0, <<1, 0>>)
        s0off == Status(2, 66, 0, <<255, 255>>)
        s1 == Status(3, 65, 1, <<1, 0>>)
        g1 == GpsPos(1, 1)
        g2 == GpsPos(2, 3)
    IN { Input(PlainFrame(StandardFlag, <<>>), TRUE),
         Input(PlainFrame(StandardFlag, s0), TRUE),
         Input(PlainFrame(StandardFlag, s0off), FALSE),
         Input(PlainFrame(StandardFlag, g1), TRUE),
         Input(PlainFrame(StandardFlag, g2 \o s1), TRUE),
         Input(PlainFrame(StandardFlag, Corrupt(g1) \o s1), FALSE),
         Input(PlainFrame(StandardFlag, Corrupt(s0off) \o g2), FALSE),
         Input(PlainFrame(StandardFlag, Ptu \o g1), TRUE),
         Input(PlainFrame(StandardFlag, g1 \o WithLen(Ptu, 200)), FALSE),
         Input(PlainFrame(RS41_FLAG_EXTENDED, g2 \o s1 \o Ptu), TRUE),
         Input(PlainFrame(StandardFlag, g2 \o s1 \o Ptu), TRUE) }

\* the frames of the calibration runs of a build with f fragments: one STATUS
\* sub-record each, for every fragment index up to the first one past the
\* bitmap, and a frame with none
CalibFrames(f) ==
    { Input(PlainFrame(StandardFlag, Status(1, 65, k, <<1, 0>>)), TRUE) :
          k \in 0..(8 * BitmapSize(f)) }
    \cup { Input(PlainFrame(StandardFlag, Status(2, 65, 0, <<255, 255>>)), TRUE),
           Input(PlainFrame(StandardFlag, Status(3, 65, 8 * BitmapSize(f), <<0, 1>>)), TRUE),
           Input(PlainFrame(StandardFlag, Corrupt(Status(1, 65, 0, <<1, 0>>))), FALSE),
           Input(PlainFrame(StandardFlag, <<>>), TRUE) }

CalibInputs == [f \in 1..(MaxFragCount + 1) |-> CalibFrames(f)]

(***************************************************************************)
(* RS41Decoder under a run of run calls.                                   *)
(***************************************************************************)
decoderState ==
    [fragCount |-> fragCount, calibData |-> calibData,
     calibDataBitmap |-> calibDataBitmap, calibrated |-> calibrated,
     stray |-> stray, applied |-> applied, sondeData |-> sondeData,
     hit |-> "elsewhere"]

FramerUnused ==
    /\ syncWord = <<>>
    /\ syncLen = 0
    /\ frameLen = 0
    /\ FramerIdle
    /\ CorrIdle

\* RS41Decoder::init for a build with f fragments
DecoderInit(f) ==
    /\ fragCount = f
    /\ calibData = [k \in 1..(f * RS41_CALIB_FRAGSIZE) |-> 0]
    /\ calibDataBitmap = InitBitmap(f)
    /\ calibrated = FALSE
    /\ stray = FALSE
    /\ applied = {}
    /\ pc = "idle"
    /\ numFrames = 0
    /\ i = 0
    /\ outCount = 0
    /\ sondeData = DefaultSondeData
    /\ rawFrame = <<>>
    /\ rsFailed = FALSE
    /\ walked = <<>>
    /\ nCalls = 0
    /\ lastArg = DefaultSondeData
    /\ ret = 0
    /\ FramerUnused

\* run is entered and _in->read() delivers n whole frames: lines 73-82
RunBegin(n) ==
    /\ pc = "idle"
    /\ pc' = "run"
    /\ numFrames' = n
    /\ i' = 0
    /\ outCount' = 0
    /\ sondeData' = DefaultSondeData
    /\ nCalls' = 0
    /\ rsFailed' = FALSE
    /\ UNCHANGED <<fragCount, calibData, calibDataBitmap, calibrated, stray, applied,
                   rawFrame, walked, lastArg, ret, framerVars, corrVars>>

\* one iteration of the for loop, lines 85-110, on the next frame of the buffer
ProcessFrame(in) ==
    /\ pc = "run"
    /\ i < numFrames
    /\ \E r \in FrameSteps(decoderState, in.raw) :
          /\ calibData' = r.d.calibData
          /\ calibDataBitmap' = r.d.calibDataBitmap
          /\ calibrated' = r.d.calibrated
          /\ stray' = r.d.stray
          /\ applied' = r.d.applied
          /\ sondeData' = r.d.sondeData
          /\ walked' = r.log
          /\ nCalls' = nCalls + Len(r.handled)
          /\ lastArg' = IF r.handled # <<>> THEN r.handled[Len(r.handled)] ELSE lastArg
    /\ rawFrame' = in.raw
    /\ rsFailed' = (rsFailed \/ ~in.rsOk)
    /\ outCount' = outCount + 1
    /\ i' = i + 1
    /\ UNCHANGED <<fragCount, pc, numFrames, ret, framerVars, corrVars>>

\* the loop is over: _in->flush() and return outCount, lines 112-113
RunEnd ==
    /\ pc = "run"
    /\ ~(i < numFrames)
    /\ pc' = "idle"
    /\ ret' = outCount
    /\ sondeData' = DefaultSondeData
    /\ rawFrame' = <<>>
    /\ walked' = <<>>
    /\ lastArg' = DefaultSondeData
    /\ UNCHANGED <<fragCount, calibData, calibDataBitmap, calibrated, stray, applied,
                   numFrames, i, outCount, nCalls, rsFailed, framerVars, corrVars>>

\* RS41Decoder::setInput, lines 60-68: the block is stopped, so no run call
\* is in progress; only _in changes
RS41SetInput ==
    /\ pc = "idle"
    /\ resets < MaxResets
    /\ resets' = resets + 1
    /\ UNCHANGED <<syncWord, syncLen, frameLen, rawData, state, dataOffset, syncOffset,
                   out, stream, fed, base, outBase, chunks, call, corrVars, decVars>>

Init == DecoderInit(MaxFragCount)

Next ==
    \/ \E n \in 0..MaxFrames : RunBegin(n)
    \/ \E in \in WalkInputs : ProcessFrame(in)
    \/ RunEnd
    \/ RS41SetInput

Spec == Init /\ [][Next]_vars

\* the calibration runs: every run call reads one frame
CalibInit == \E f \in 1..MaxFragCount : DecoderInit(f)

CalibNext ==
    \/ RunBegin(1)
    \/ \E in \in CalibInputs[fragCount] : ProcessFrame(in)
    \/ RunEnd
    \/ RS41SetInput

CalibSpec == CalibInit /\ [][CalibNext]_vars

(***************************************************************************)
(* Claims about the calibration record.                                    *)
(***************************************************************************)
InRange == 0..(fragCount - 1)

\* C4: once STATUS sub-records with every fragment index 0..F-1 have been
\* applied to a freshly initialised decoder, calibrated is true.
C4_CalibrationCompleteness == InRange \subseteq applied => calibrated

\* C5: while some fragment index in 0..F-1 has not been applied, calibrated
\* is false.
C5_CalibrationNeverEarly == calibrated => InRange \subseteq applied

\* bit index%8 of byte index/8 of the bitmap, the bit updateCalibData clears
\* at line 243
SlotBit(bitmap, index) == (bitmap[index \div 8 + 1] \div Pow2(index % 8)) % 2

\* C15: right after init, the bitmap bit of every slot 0..F-1 is set and the
\* bit of every slot >= F in the bitmap is clear.
C15_InitialBitmap ==
    applied = {} =>
        \A index \in 0..(8 * Len(calibDataBitmap) - 1) :
            SlotBit(calibDataBitmap, index) = (IF index < fragCount THEN 1 ELSE 0)

Frame == descramble(rawFrame)
Dispatched(type) ==
    \E k \in 1..Len(walked) :
        walked[k].dispatched /\ SubType(Frame, walked[k].offset) = type
\* C10: a step that applies only STATUS sub-records with a fragment index of
\* at least the fragment count leaves the calibration buffer, the bitmap and
\* calibrated unchanged and writes nothing outside buffer and bitmap.
C10_OutOfRangeNoOp ==
    [][(pc = "run" /\ i' = i + 1
        /\ LET fr == descramble(rawFrame')
               frags == { StatusFragSeq(fr, walked'[k].offset) :
                            k \in { n \in 1..Len(walked') :
                                      walked'[n].dispatched
                                      /\ SubType(fr, walked'[n].offset) = RS41_SFTYPE_INFO } }
           IN frags # {} /\ \A q \in frags : q >= fragCount)
       => UNCHANGED <<calibData, calibDataBitmap, calibrated, stray>>]_vars

(***************************************************************************)
(* Claims about RS41Decoder::run.                                          *)
(***************************************************************************)
\* C6: a run call that reads n frames calls the handler n times, once per
\* frame after that frame's walk, with or without Reed-Solomon failures and
\* rejected sub-records, and returns n.
C6_OneHandlerCallPerFrame ==
    /\ pc = "run" => /\ nCalls = i
                     /\ outCount = i
                     /\ i <= numFrames
                     /\ (i >= 1 => lastArg = sondeData)
    /\ pc = "idle" => ret = numFrames /\ nCalls = numFrames

C6_Witness ==
    pc = "idle" /\ numFrames = MaxFrames /\ ret = MaxFrames /\ nCalls = MaxFrames /\ rsFailed

\* the offset of the first sub-record of fr, walking from offset o by the
\* declared lengths, whose span o + len + 4 exceeds the data region; -1 if
\* there is none
RECURSIVE FirstOutOfBounds(_, _)
FirstOutOfBounds(fr, o) ==
    IF ~(o < BytesLeft(fr)) THEN -1
    ELSE IF o + SubLen(fr, o) + 4 > BytesLeft(fr) THEN o
    ELSE FirstOutOfBounds(fr, o + SubLen(fr, o) + 4)

\* the decoder state after the checksum-valid sub-records of fr from offset
\* o up to, not including, offset stop have been applied in order
RECURSIVE Earlier(_, _, _, _)
Earlier(d, fr, o, stop) ==
    IF o >= stop THEN d
    ELSE Earlier(IF crcCheck(fr, o) THEN updateSondeData(d, fr, o) ELSE d,
                 fr, o + SubLen(fr, o) + 4, stop)

\* C16: when a sub-record's declared span exceeds the data region (L for a
\* standard frame, L+X for an extended one) the walk stops: that sub-record
\* and everything after it are not dispatched, the effects of the sub-records
\* dispatched before it are kept, and the handler is still called.
C16_OutOfBoundsSpanStopsWalk ==
    [][(pc = "run" /\ i' = i + 1) =>
       \A fr \in {descramble(rawFrame')} : \A stop \in {FirstOutOfBounds(fr, 0)} :
          stop >= 0 =>
              /\ \A k \in 1..Len(walked') : walked'[k].offset < stop
              /\ \E h \in StrayHits :
                    LET e == Earlier([decoderState EXCEPT !.hit = h], fr, 0, stop)
                    IN /\ sondeData' = e.sondeData
                       /\ calibData' = e.calibData
                       /\ calibDataBitmap' = e.calibDataBitmap
                       /\ calibrated' = e.calibrated
              /\ nCalls' = nCalls + 1
              /\ lastArg' = sondeData']_vars

\* C16 witness: a frame was walked whose checksum-valid PTU sub-record spans
\* past the data region; the sub-records before it were dispatched, it was
\* not, and the handler was called for the frame.
C16_Witness ==
    /\ pc = "run"
    /\ i >= 1
    /\ nCalls = i
    /\ LET stop == FirstOutOfBounds(Frame, 0)
       IN /\ stop > 0
          /\ SubType(Frame, stop) = RS41_SFTYPE_PTU
          /\ crcCheck(Frame, stop)
          /\ Len(walked) = 2
          /\ \A k \in 1..Len(walked) : walked[k].dispatched /\ walked[k].offset < stop
          /\ lastArg.seq = StatusFrameSeq(Frame, walked[2].offset)

\* C7: in the record passed to the handler, the position and velocity fields
\* have their default values unless a GPS position sub-record of that frame
\* was dispatched, and the sequence number has its default value unless a
\* STATUS sub-record of that frame was dispatched.
C7_PerFrameFreshness ==
    (pc = "run" /\ i >= 1) =>
        /\ ~Dispatched(RS41_SFTYPE_GPSPOS) =>
               /\ lastArg.lat = DefaultSondeData.lat
               /\ lastArg.lon = DefaultSondeData.lon
               /\ lastArg.alt = DefaultSondeData.alt
               /\ lastArg.spd = DefaultSondeData.spd
               /\ lastArg.hdg = DefaultSondeData.hdg
               /\ lastArg.climb = DefaultSondeData.climb
        /\ ~Dispatched(RS41_SFTYPE_INFO) => lastArg.seq = DefaultSondeData.seq

\* the burst-kill value of the persistent calibration record
PersistentBurstkill ==
    IF BurstkillTimer(calibData) = 65535 THEN -1 ELSE BurstkillTimer(calibData)

\* C8: the record passed to the handler for a frame carries the persistent
\* calibration-complete flag and burst-kill value as they stand at the end of
\* that frame, with or without a STATUS sub-record in the frame.
C8_PersistentStateMerged ==
    (pc = "run" /\ i >= 1) =>
        /\ lastArg.calibrated = calibrated
        /\ lastArg.burstkill = PersistentBurstkill

\* the bytes at data offset o are a sub-record with a matching checksum
ValidAt(fr, o) ==
    DataBytes(fr, o, SubLen(fr, o) + 4)
        = SubRecord(SubType(fr, o), DataBytes(fr, o + 2, SubLen(fr, o)))

\* C9: a sub-record within the data region whose checksum does not match is
\* not dispatched and changes nothing, the walk continues at o + len + 4, and
\* sub-records with a matching checksum are dispatched.
C9_ChecksumRejection ==
    [][(pc = "run" /\ i' = i + 1) =>
        \E fr \in {descramble(rawFrame')} :
        LET valid(type) ==
                \E k \in 1..Len(walked') :
                    /\ ValidAt(fr, walked'[k].offset)
                    /\ SubType(fr, walked'[k].offset) = type
        IN /\ \A k \in 1..Len(walked') :
                  LET o == walked'[k].offset
                      next == o + SubLen(fr, o) + 4
                  IN /\ walked'[k].dispatched = ValidAt(fr, o)
                     /\ ~ValidAt(fr, o) => ~walked'[k].changed
                     /\ (next < BytesLeft(fr) /\ next + SubLen(fr, next) + 4 <= BytesLeft(fr))
                            => (k < Len(walked') /\ walked'[k + 1].offset = next)
           /\ ~valid(RS41_SFTYPE_INFO) =>
                  /\ UNCHANGED <<calibData, calibDataBitmap, calibrated>>
                  /\ sondeData'.calibrated = sondeData.calibrated
                  /\ sondeData'.serial = sondeData.serial
                  /\ sondeData'.burstkill = sondeData.burstkill
                  /\ sondeData'.seq = sondeData.seq
           /\ ~valid(RS41_SFTYPE_GPSPOS) =>
                  /\ sondeData'.lat = sondeData.lat
                  /\ sondeData'.lon = sondeData.lon
                  /\ sondeData'.alt = sondeData.alt
                  /\ sondeData'.spd = sondeData.spd
                  /\ sondeData'.hdg = sondeData.hdg
                  /\ sondeData'.climb = sondeData.climb]_vars

C9_Witness ==
    /\ pc = "run"
    /\ \E k \in 1..(Len(walked) - 1) :
           /\ ~ValidAt(Frame, walked[k].offset)
           /\ ~walked[k].dispatched
           /\ walked[k + 1].offset
                  = walked[k].offset + SubLen(Frame, walked[k].offset) + 4
           /\ walked[k + 1].dispatched
           /\ SubType(Frame, walked[k + 1].offset) = RS41_SFTYPE_INFO
           /\ sondeData.serial = StatusSerial(Frame, walked[k + 1].offset)

====
